---- MODULE Spec2Model ----
(***************************************************************************)
(* The redundant_clone lint pass (clippy_lints/src/redundant_clone.rs).    *)
(*                                                                         *)
(* check_fn walks the basic blocks of one function's MIR.  For every block *)
(* whose terminator is a clone-like call it resolves the local that is     *)
(* cloned (find_stmt_assigns_to, with one more hop through the single      *)
(* predecessor for the to_path_buf / to_os_string family), scans the       *)
(* blocks reachable after the call for a use of that local                 *)
(* (LocalUseVisitor) and lints the call when there is none.                *)
(*                                                                         *)
(* The MIR is the input: Init draws it from bounded families of graphs.    *)
(* One action models one iteration of the `for (bb, bbdata)` loop; which   *)
(* action is enabled is decided by the `continue` the iteration reaches.   *)
(* Blocks are numbered from 1 (bb0 of the MIR is block 1).                 *)
(***************************************************************************)
EXTENDS Integers, Sequences, FiniteSets, TLC

(***************************************************************************)
(* Bounds of the generated inputs.                                         *)
(***************************************************************************)
NumBlocks == 3
NumLocals == 5
MaxStmts == 2
MaxSnip == 3
MaxLo == 1

(***************************************************************************)
(* MIR values.                                                             *)
(***************************************************************************)
NoLocal == 0

\* mir::Place: Place::Local(l), or a projection whose base is l
Local(l) == [local |-> l, proj |-> FALSE]
Field(l) == [local |-> l, proj |-> TRUE]
NoPlace == [local |-> NoLocal, proj |-> FALSE]

\* mir::Operand: Move(place), Copy(place) or Constant
Move(p) == [op |-> "Move", place |-> p]
Copy(p) == [op |-> "Copy", place |-> p]
Constant == [op |-> "Constant", place |-> NoPlace]

\* ty::Ty: pointer layers, outermost first, over a base type
Ty(ptrs, base) == [ptrs |-> ptrs, base |-> base]
RefTo(base) == Ty(<<"ref">>, base)
Owned(base) == Ty(<<>>, base)
NoTy == Ty(<<>>, "")

\* mir::StatementKind
Assign(p, rv, q) == [kind |-> "Assign", place |-> p, rv |-> rv, src |-> q]
StorageLive(l) == [kind |-> "StorageLive", place |-> Local(l), rv |-> "", src |-> NoPlace]
StorageDead(l) == [kind |-> "StorageDead", place |-> Local(l), rv |-> "", src |-> NoPlace]

\* Source information of a terminator: its span [lo, hi), whether the span
\* comes from a macro expansion, and the text of the span when there is one
SourceInfo(lo, hi, mac, has, snip) ==
    [lo |-> lo, hi |-> hi, in_macro |-> mac, has_snip |-> has, snip |-> snip]
PlainInfo == SourceInfo(0, 1, FALSE, FALSE, <<>>)

\* The callee operand of a call: its type (a function item with a DefId, or
\* a function pointer) and the operand itself
FnItem(path) == [sty |-> "FnDef", def |-> path, operand |-> Constant]
FnPointer(o) == [sty |-> "FnPtr", def |-> "", operand |-> o]
NoFunc == [sty |-> "", def |-> "", operand |-> Constant]

\* mir::TerminatorKind, with the successor blocks in successors() order
Terminator(kind, func, args, place, discr, targets, info) ==
    [kind |-> kind, func |-> func, args |-> args, place |-> place,
     discr |-> discr, targets |-> targets, source_info |-> info]
Call(func, args, dest, targets) ==
    Terminator("Call", func, args, dest, Constant, targets, PlainInfo)
Goto(t) == Terminator("Goto", NoFunc, <<>>, NoPlace, Constant, <<t>>, PlainInfo)
Return == Terminator("Return", NoFunc, <<>>, NoPlace, Constant, <<>>, PlainInfo)
Drop(p, t) == Terminator("Drop", NoFunc, <<>>, p, Constant, <<t>>, PlainInfo)
SwitchInt(o, ts) == Terminator("SwitchInt", NoFunc, <<>>, NoPlace, o, ts, PlainInfo)
WithInfo(term, info) == [term EXCEPT !.source_info = info]

Block(stmts, term) == [statements |-> stmts, terminator |-> term]
Mir(blocks, decls) == [basic_blocks |-> blocks, local_decls |-> decls]

(***************************************************************************)
(* Paths of utils::paths compared by match_def_path and match_type.        *)
(***************************************************************************)
CLONE_TRAIT_METHOD == "clone::Clone::clone"
TO_OWNED_METHOD == "borrow::ToOwned::to_owned"
TO_STRING_METHOD == "string::ToString::to_string"
PATH_TO_PATH_BUF == "path::Path::to_path_buf"
OS_STR_TO_OS_STRING == "ffi::OsStr::to_os_string"
DEREF_TRAIT_METHOD == "ops::Deref::deref"
STRING_TYPE == "String"
PATH_BUF == "PathBuf"
OS_STRING == "OsString"

match_def_path(def, path) == def = path
match_type(ty, path) == ty.ptrs = <<>> /\ ty.base = path

\* The types that are Copy: shared references and raw pointers, and the
\* base types in CopyBases
CopyBases == {"i32"}
is_copy(ty) ==
    IF ty.ptrs # <<>> THEN Head(ty.ptrs) \in {"ref", "raw"} ELSE ty.base \in CopyBases

\* walk_ptrs_ty_depth: strip the leading references, count them
RECURSIVE walk_ptrs_ty_depth(_)
walk_ptrs_ty_depth(ty) ==
    IF ty.ptrs # <<>> /\ Head(ty.ptrs) \in {"ref", "refmut"}
    THEN LET r == walk_ptrs_ty_depth(Ty(Tail(ty.ptrs), ty.base))
         IN  [ty |-> r.ty, depth |-> r.depth + 1]
    ELSE [ty |-> ty, depth |-> 0]

in_macro(info) == info.in_macro

\* The type of an operand: the declared type of its local
operand_ty(mir, o) ==
    IF o.op = "Constant" \/ o.place.proj THEN NoTy ELSE mir.local_decls[o.place.local]

successors(term) == term.targets

BlockIds(mir) == 1..Len(mir.basic_blocks)

\* mir.predecessors_for(bb): the blocks with an edge to bb, in block order
RECURSIVE PredsUpTo(_, _, _)
PredsUpTo(mir, bb, n) ==
    IF n = 0 THEN <<>>
    ELSE LET rest == PredsUpTo(mir, bb, n - 1)
             succ == successors(mir.basic_blocks[n].terminator)
         IN  IF \E i \in DOMAIN succ : succ[i] = bb THEN Append(rest, n) ELSE rest
predecessors_for(mir, bb) == PredsUpTo(mir, bb, Len(mir.basic_blocks))

(***************************************************************************)
(* is_call_with_ref_arg: `y = func(x: &T)` where `T: !Copy`.               *)
(***************************************************************************)
None == [some |-> FALSE, def |-> "", local |-> NoLocal, ty |-> NoTy, dest |-> NoPlace]
Some(def, local, ty, dest) ==
    [some |-> TRUE, def |-> def, local |-> local, ty |-> ty, dest |-> dest]

\* is_call_with_ref_arg without the `!is_copy(cx, inner_ty)` condition
is_call_with_ref_arg_CopyToo(mir, kind) ==
    IF /\ kind.kind = "Call"
       /\ Len(kind.args) = 1
       /\ kind.args[1].op = "Move"
       /\ ~kind.args[1].place.proj
       /\ kind.func.sty = "FnDef"
       /\ walk_ptrs_ty_depth(operand_ty(mir, kind.args[1])).depth = 1
    THEN Some(kind.func.def, kind.args[1].place.local,
              walk_ptrs_ty_depth(operand_ty(mir, kind.args[1])).ty, kind.place)
    ELSE None

is_call_with_ref_arg(mir, kind) ==
    IF /\ kind.kind = "Call"
       /\ Len(kind.args) = 1
       /\ kind.args[1].op = "Move"
       /\ ~kind.args[1].place.proj
       /\ kind.func.sty = "FnDef"
       /\ walk_ptrs_ty_depth(operand_ty(mir, kind.args[1])).depth = 1
       /\ ~is_copy(walk_ptrs_ty_depth(operand_ty(mir, kind.args[1])).ty)
    THEN Some(kind.func.def, kind.args[1].place.local,
              walk_ptrs_ty_depth(operand_ty(mir, kind.args[1])).ty, kind.place)
    ELSE None

(***************************************************************************)
(* find_stmt_assigns_to: the first `to = (&)from` of the statements taken  *)
(* from the last one backwards; NoLocal when there is none.                *)
(***************************************************************************)
StmtAssignsTo(stmt, to, by_ref) ==
    /\ stmt.kind = "Assign"
    /\ ~stmt.place.proj
    /\ stmt.place.local = to
    /\ ~stmt.src.proj
    /\ IF by_ref THEN stmt.rv = "Ref" ELSE stmt.rv = "Copy"

\* find_stmt_assigns_to over `statements.iter()` instead of `.iter().rev()`
RECURSIVE find_stmt_assigns_to_Forward(_, _, _)
find_stmt_assigns_to_Forward(to, by_ref, stmts) ==
    IF stmts = <<>> THEN NoLocal
    ELSE IF StmtAssignsTo(Head(stmts), to, by_ref)
         THEN Head(stmts).src.local
         ELSE find_stmt_assigns_to_Forward(to, by_ref, Tail(stmts))

RECURSIVE find_stmt_assigns_to(_, _, _)
find_stmt_assigns_to(to, by_ref, stmts) ==
    IF stmts = <<>> THEN NoLocal
    ELSE IF StmtAssignsTo(stmts[Len(stmts)], to, by_ref)
         THEN stmts[Len(stmts)].src.local
         ELSE find_stmt_assigns_to(to, by_ref, SubSeq(stmts, 1, Len(stmts) - 1))

(***************************************************************************)
(* LocalUseVisitor.  The default visitor methods reach visit_local once    *)
(* for every local of a statement or terminator, with the context of the   *)
(* occurrence.                                                             *)
(***************************************************************************)
Use(l, ctx) == [local |-> l, ctx |-> ctx]

\* The base of a projection is visited with the Projection context
PlaceUse(p, ctx) == Use(p.local, IF p.proj THEN "Projection" ELSE ctx)

OperandUses(o) ==
    IF o.op = "Constant" THEN <<>> ELSE <<PlaceUse(o.place, o.op)>>

RECURSIVE OperandsUses(_)
OperandsUses(os) ==
    IF os = <<>> THEN <<>> ELSE OperandUses(Head(os)) \o OperandsUses(Tail(os))

StatementUses(stmt) ==
    IF stmt.kind = "Assign"
    THEN <<PlaceUse(stmt.place, "Store")>> \o
         (IF stmt.rv = "Ref" THEN <<PlaceUse(stmt.src, "SharedBorrow")>>
          ELSE IF stmt.rv \in {"Copy", "Move"} THEN <<PlaceUse(stmt.src, stmt.rv)>>
          ELSE <<>>)
    ELSE <<Use(stmt.place.local, stmt.kind)>>

TerminatorUses(term) ==
    IF term.kind = "Call"
    THEN OperandUses(term.func.operand) \o OperandsUses(term.args) \o
         (IF term.place = NoPlace THEN <<>> ELSE <<PlaceUse(term.place, "Call")>>)
    ELSE IF term.kind = "Drop" THEN <<PlaceUse(term.place, "Drop")>>
    ELSE IF term.kind = "SwitchInt" THEN OperandUses(term.discr)
    ELSE <<>>

\* visit_local that also returns early on the contexts in `exempt`, and
\* flags every local when `any` is set
VisitLocalWith(exempt, any, self_local, used_other_than_drop, local, ctx) ==
    IF ctx = "Drop" \/ ctx \in {"StorageLive", "StorageDead"} \/ ctx \in exempt
    THEN used_other_than_drop
    ELSE IF any \/ local = self_local THEN TRUE ELSE used_other_than_drop

visit_local_IgnoresMove(self_local, used_other_than_drop, local, ctx) ==
    VisitLocalWith({"Move"}, FALSE, self_local, used_other_than_drop, local, ctx)
visit_local_IgnoresBorrow(self_local, used_other_than_drop, local, ctx) ==
    VisitLocalWith({"SharedBorrow"}, FALSE, self_local, used_other_than_drop, local, ctx)
visit_local_IgnoresStore(self_local, used_other_than_drop, local, ctx) ==
    VisitLocalWith({"Store", "Call"}, FALSE, self_local, used_other_than_drop, local, ctx)
visit_local_AnyLocal(self_local, used_other_than_drop, local, ctx) ==
    VisitLocalWith({}, TRUE, self_local, used_other_than_drop, local, ctx)
\* visit_local without the early return on Drop
visit_local_CountsDrop(self_local, used_other_than_drop, local, ctx) ==
    IF ctx \in {"StorageLive", "StorageDead"}
    THEN used_other_than_drop
    ELSE IF local = self_local THEN TRUE ELSE used_other_than_drop

\* visit_local: the new value of used_other_than_drop
visit_local(self_local, used_other_than_drop, local, ctx) ==
    IF ctx = "Drop" \/ ctx \in {"StorageLive", "StorageDead"}
    THEN used_other_than_drop
    ELSE IF local = self_local THEN TRUE ELSE used_other_than_drop

RECURSIVE VisitUses(_, _, _)
VisitUses(self_local, used, uses) ==
    IF uses = <<>> THEN used
    ELSE VisitUses(self_local,
                   visit_local(self_local, used, Head(uses).local, Head(uses).ctx),
                   Tail(uses))

\* visit_basic_block_data from statement i on: the final used_other_than_drop
RECURSIVE VisitFrom(_, _, _)
VisitFrom(self_local, data, i) ==
    IF i > Len(data.statements)
    THEN VisitUses(self_local, FALSE, TerminatorUses(data.terminator))
    ELSE IF VisitUses(self_local, FALSE, StatementUses(data.statements[i]))
         THEN TRUE
         ELSE VisitFrom(self_local, data, i + 1)
visit_basic_block_data(self_local, data) == VisitFrom(self_local, data, 1)

(***************************************************************************)
(* traversal::ReversePostorder::new(&mir, bb): depth-first from bb, a      *)
(* block is marked when first reached and listed when its successors are   *)
(* done; the list is then reversed.                                        *)
(***************************************************************************)
RECURSIVE Dfs(_, _, _)
RECURSIVE DfsSuccessors(_, _, _, _)
Dfs(mir, b, acc) ==
    LET r == DfsSuccessors(mir, successors(mir.basic_blocks[b].terminator), 1,
                           [visited |-> acc.visited \cup {b}, order |-> acc.order])
    IN  [visited |-> r.visited, order |-> Append(r.order, b)]
DfsSuccessors(mir, succ, i, acc) ==
    IF i > Len(succ) THEN acc
    ELSE IF succ[i] \in acc.visited THEN DfsSuccessors(mir, succ, i + 1, acc)
         ELSE DfsSuccessors(mir, succ, i + 1, Dfs(mir, succ[i], acc))
Postorder(mir, root) == Dfs(mir, root, [visited |-> {}, order |-> <<>>]).order

Reverse(s) == [i \in 1..Len(s) |-> s[Len(s) + 1 - i]]
ReversePostorder(mir, root) == Reverse(Postorder(mir, root))

\* The closure without its "Give up on loops" test
UsedIn_NoBackEdge(mir, bb, referent, tbb) ==
    visit_basic_block_data(referent, mir.basic_blocks[tbb])

\* The closure given to any(): the block loops back to bb, or uses referent
UsedIn(mir, bb, referent, tbb) ==
    IF \E i \in DOMAIN successors(mir.basic_blocks[tbb].terminator) :
           successors(mir.basic_blocks[tbb].terminator)[i] = bb
    THEN TRUE
    ELSE visit_basic_block_data(referent, mir.basic_blocks[tbb])

RECURSIVE AnyBlock(_, _, _, _)
AnyBlock(mir, bb, referent, order) ==
    IF order = <<>> THEN FALSE
    ELSE IF UsedIn(mir, bb, referent, Head(order)) THEN TRUE
         ELSE AnyBlock(mir, bb, referent, Tail(order))

\* ReversePostorder::new(&mir, bb).skip(1).any(..)
used_later(mir, bb, referent) ==
    AnyBlock(mir, bb, referent, Tail(ReversePostorder(mir, bb)))

(***************************************************************************)
(* The finding emitted for a call: span narrowing by the last '.' of the   *)
(* snippet of the call's span.                                             *)
(***************************************************************************)
NoSpan == <<>>
Span(lo, hi) == <<lo, hi>>

\* Bytes of a character of the snippet in UTF-8
len_utf8(c) == IF c = "e_acute" THEN 2 ELSE 1

RECURSIVE ByteLen(_)
ByteLen(snip) == IF snip = <<>> THEN 0 ELSE len_utf8(Head(snip)) + ByteLen(Tail(snip))

\* str::find('.') in the place of rfind: the first '.'
RECURSIVE rfind_First(_)
rfind_First(snip) ==
    IF snip = <<>> THEN -1
    ELSE IF Head(snip) = "." THEN 0
         ELSE IF rfind_First(Tail(snip)) < 0 THEN -1
              ELSE len_utf8(Head(snip)) + rfind_First(Tail(snip))

\* str::rfind('.'): byte offset of the last '.', -1 for None
RECURSIVE rfind(_)
rfind(snip) ==
    IF snip = <<>> THEN -1
    ELSE IF snip[Len(snip)] = "." THEN ByteLen(SubSeq(snip, 1, Len(snip) - 1))
         ELSE rfind(SubSeq(snip, 1, Len(snip) - 1))

snippet_opt(info) == IF info.has_snip THEN info.snip ELSE <<>>

Finding(bb, span, sugg, note) ==
    [bb |-> bb, span |-> span, suggestion |-> sugg, note |-> note,
     msg |-> "redundant clone"]

\* Lines 172-204: the lint for the call that ends block bb.  dot is an
\* offset into the text of the span, so lo + dot is below hi and the
\* BytePos addition cannot wrap
Lint(mir, bb) ==
    LET info == mir.basic_blocks[bb].terminator.source_info
        dot == rfind(snippet_opt(info))
        sugg_lo == info.lo + dot
    IN  IF info.has_snip /\ dot >= 0
        THEN Finding(bb, Span(sugg_lo, info.hi), Span(sugg_lo, info.hi),
                     Span(info.lo, sugg_lo))
        ELSE Finding(bb, Span(info.lo, info.hi), NoSpan, NoSpan)

(***************************************************************************)
(* One iteration of the loop of check_fn over block bb: the values of its  *)
(* locals at the point where the iteration ends.  outcome names the        *)
(* `continue` taken, "used" when used_later is true, "lint" otherwise.     *)
(***************************************************************************)
Locals(outcome, m, fb, cloned, referent) ==
    [outcome |-> outcome, m |-> m, from_borrow |-> fb, cloned |-> cloned,
     referent |-> referent]

from_borrow(m) ==
    \/ match_def_path(m.def, CLONE_TRAIT_METHOD)
    \/ match_def_path(m.def, TO_OWNED_METHOD)
    \/ (match_def_path(m.def, TO_STRING_METHOD) /\ match_type(m.ty, STRING_TYPE))

from_deref(m) ==
    /\ ~from_borrow(m)
    /\ (match_def_path(m.def, PATH_TO_PATH_BUF)
          \/ match_def_path(m.def, OS_STR_TO_OS_STRING))

\* The if_chain of lines 139-151 without its DEREF_TRAIT_METHOD condition
pred_arg_AnyCallee(mir, pred, cloned) ==
    LET pm == is_call_with_ref_arg(mir, mir.basic_blocks[pred].terminator)
    IN  IF /\ pm.some
           /\ pm.dest # NoPlace
           /\ pm.dest = Local(cloned)
           /\ (match_type(pm.ty, PATH_BUF) \/ match_type(pm.ty, OS_STRING))
        THEN pm.local
        ELSE NoLocal

\* Lines 139-151: the argument of the dereference call of the predecessor
pred_arg(mir, pred, cloned) ==
    LET pm == is_call_with_ref_arg(mir, mir.basic_blocks[pred].terminator)
    IN  IF /\ pm.some
           /\ pm.dest # NoPlace
           /\ pm.dest = Local(cloned)
           /\ match_def_path(pm.def, DEREF_TRAIT_METHOD)
           /\ (match_type(pm.ty, PATH_BUF) \/ match_type(pm.ty, OS_STRING))
        THEN pm.local
        ELSE NoLocal

CheckBlock(mir, bb) ==
    LET bbdata == mir.basic_blocks[bb]
        terminator == bbdata.terminator
        m == is_call_with_ref_arg(mir, terminator)
        fb == from_borrow(m)
        cloned == find_stmt_assigns_to(m.local, fb, bbdata.statements)
        ps == predecessors_for(mir, bb)
        parg == pred_arg(mir, ps[1], cloned)
        referent == IF from_deref(m)
                    THEN find_stmt_assigns_to(parg, TRUE,
                                              mir.basic_blocks[ps[1]].statements)
                    ELSE cloned
    IN  IF in_macro(terminator.source_info)
        THEN Locals("in_macro", None, FALSE, NoLocal, NoLocal)
        ELSE IF \E i \in DOMAIN successors(terminator) : successors(terminator)[i] = bb
        THEN Locals("self_loop", None, FALSE, NoLocal, NoLocal)
        ELSE IF ~m.some
        THEN Locals("no_call", m, FALSE, NoLocal, NoLocal)
        ELSE IF ~fb /\ ~from_deref(m)
        THEN Locals("other_fn", m, fb, NoLocal, NoLocal)
        ELSE IF cloned = NoLocal
        THEN Locals("no_cloned", m, fb, cloned, NoLocal)
        ELSE IF from_deref(m) /\ Len(ps) # 1
        THEN Locals("preds", m, fb, cloned, NoLocal)
        ELSE IF from_deref(m) /\ parg = NoLocal
        THEN Locals("no_deref", m, fb, cloned, NoLocal)
        ELSE IF referent = NoLocal
        THEN Locals("no_referent", m, fb, cloned, referent)
        ELSE IF used_later(mir, bb, referent)
        THEN Locals("used", m, fb, cloned, referent)
        ELSE Locals("lint", m, fb, cloned, referent)

(***************************************************************************)
(* Input graphs.  x is local 1, the argument temporary local 2, y local 3  *)
(* and the last local receives results.  Every family varies one part of   *)
(* the function and keeps the rest plain.                                  *)
(***************************************************************************)
LocalIds == 1..NumLocals
Blocks == 1..NumBlocks
x == 1
arg == 2
y == 3
ret == NumLocals

SeqsUpTo(S, n) == UNION {[1..k -> S] : k \in 0..n}

Decls(arg_ty) ==
    [l \in LocalIds |-> IF l = arg THEN arg_ty
                        ELSE IF l = y THEN RefTo("String") ELSE Owned("String")]

BorrowX == Assign(Local(arg), "Ref", Local(x))
BorrowXIntoY == Assign(Local(y), "Ref", Local(x))
CloneCall(f, succ) == Call(FnItem(f), <<Move(Local(arg))>>, Local(ret), succ)

\* Blocks 1..NumBlocks with `first` up front, then `mid` (a function of
\* block ids), every other block falling through to the next; the last
\* block returns
Plain(i) == IF i = NumBlocks THEN Block(<<>>, Return) ELSE Block(<<>>, Goto(i + 1))
Chain(first, mid) ==
    [i \in Blocks |-> IF i = 1 THEN first
                      ELSE IF i \in DOMAIN mid THEN mid[i] ELSE Plain(i)]

\* Control flow: any edges among the blocks after the call, each block
\* reading x or not
CfgSuccessors == {<<1>>, <<2>>, <<2, NumBlocks>>}
CfgTerminators ==
    {Return} \cup {Goto(t) : t \in Blocks}
             \cup UNION {{SwitchInt(Copy(Local(y)), <<t, u>>) : u \in Blocks \ 1..t} :
                           t \in Blocks}
CfgBlocks ==
    {Block(st, tm) : st \in {<<>>, <<Assign(Local(ret), "Move", Local(x))>>},
                     tm \in CfgTerminators}
CfgGraph(g) ==
    \E succ \in CfgSuccessors, mid \in [2..NumBlocks -> CfgBlocks] :
        g = Mir(Chain(Block(<<BorrowX>>, CloneCall(CLONE_TRAIT_METHOD, succ)), mid),
                Decls(RefTo("String")))

\* Contexts: one block after the call holds any statements and terminator
\* over x and y
CtxStatements ==
    UNION {{Assign(Local(ret), "Move", Local(l)), Assign(Local(l), "Constant", NoPlace),
            StorageDead(l), Assign(Local(ret), "Ref", Field(l))} : l \in {x, y}}
CtxTerminators(next) ==
    {Goto(next)} \cup
    UNION {{Drop(Local(l), next),
            Call(FnItem("use"), <<Move(Local(l))>>, Local(ret), <<next>>),
            Call(FnItem("make"), <<>>, Local(l), <<next>>)} : l \in {x, y}}
\* With y = &x taken before the call, y is not read once x has been
\* overwritten, moved out or marked dead (the borrow checker's rule)
EndsBorrowOfX(u) == u.local = x /\ u.ctx \in {"Store", "Call", "Move", "StorageDead"}
ReadsY(u) == u.local = y /\ u.ctx \in {"Copy", "Move", "SharedBorrow", "Projection"}
BorrowRespected(st, tm) ==
    LET uses == [i \in 1..(Len(st) + 1) |->
                    IF i <= Len(st) THEN StatementUses(st[i]) ELSE TerminatorUses(tm)]
    IN  \A i \in DOMAIN uses, j \in DOMAIN uses :
            (i < j /\ \E u \in DOMAIN uses[i] : EndsBorrowOfX(uses[i][u]))
                => \A v \in DOMAIN uses[j] : ~ReadsY(uses[j][v])
CtxGraph(g) ==
    \E k \in 2..(NumBlocks - 1) :
        \E pre \in {<<BorrowX>>, <<BorrowXIntoY, BorrowX>>},
           st \in SeqsUpTo(CtxStatements, MaxStmts),
           tm \in CtxTerminators(k + 1) :
            /\ Len(pre) = 1 \/ BorrowRespected(st, tm)
            /\ g = Mir(Chain(Block(pre, CloneCall(CLONE_TRAIT_METHOD, <<2>>)),
                          [i \in {k} |-> Block(st, tm)]),
                    Decls(RefTo("String")))

\* Call shapes: the terminator of the first block and the type of its
\* argument vary
ClsArgTys ==
    {RefTo("String"), RefTo("i32"), Owned("String"), Ty(<<"ref", "ref">>, "String"),
     Ty(<<"refmut">>, "String"), Ty(<<"ref", "raw">>, "String"), Ty(<<"raw">>, "String"),
     RefTo("Path")}
ClsFuncs ==
    {FnItem(f) : f \in {CLONE_TRAIT_METHOD, TO_OWNED_METHOD, TO_STRING_METHOD,
                         PATH_TO_PATH_BUF, OS_STR_TO_OS_STRING, DEREF_TRAIT_METHOD, "use"}}
    \cup {FnPointer(Copy(Local(y)))}
ClsArgs ==
    {<<>>, <<Move(Local(arg))>>, <<Copy(Local(arg))>>, <<Constant>>, <<Move(Field(arg))>>,
     <<Move(Local(arg)), Move(Local(y))>>}
ClsTerminators ==
    {Call(f, as, Local(ret), <<2>>) : f \in ClsFuncs, as \in ClsArgs}
    \cup {Goto(2), Drop(Local(arg), 2)}
ClsGraph(g) ==
    \E tm \in ClsTerminators, ty \in ClsArgTys, mac \in BOOLEAN :
        g = Mir(Chain(Block(<<BorrowX>>,
                            WithInfo(tm, SourceInfo(0, 1, mac, FALSE, <<>>))), <<>>),
                Decls(ty))

\* Assignments before the call: the statements of the call's block vary,
\* the block before it may assign the argument too
ResStatements ==
    {Assign(Local(arg), rv, Local(l)) : rv \in {"Ref", "Copy"}, l \in LocalIds \ {arg}}
    \cup {Assign(Local(arg), "Move", Local(x)), Assign(Local(y), "Ref", Local(x)),
          Assign(Local(arg), "Ref", Field(x)), Assign(Field(arg), "Ref", Local(x)),
          StorageLive(arg)}
ResCallees ==
    {<<CLONE_TRAIT_METHOD, RefTo("String")>>, <<PATH_TO_PATH_BUF, RefTo("Path")>>}
ResGraph(g) ==
    \E pre \in {<<>>, <<Assign(Local(arg), "Ref", Local(y))>>},
       st \in SeqsUpTo(ResStatements, MaxStmts),
       c \in ResCallees :
        g = Mir(Chain(Block(pre, Goto(2)),
                      [i \in {2} |-> Block(st, CloneCall(c[1], <<3>>))]),
                Decls(c[2]))

\* Path::to_path_buf after Deref::deref:
\*   { _2 = &_1; _3 = deref(move _2) } -> { _4 = _3; _5 = to_path_buf(move _4) }
DerefDecls(ty) ==
    [l \in LocalIds |-> IF l = 1 THEN Owned("PathBuf")
                        ELSE IF l = 2 THEN ty
                        ELSE IF l \in {3, 4} THEN RefTo("Path") ELSE Owned("PathBuf")]
DerefFirst ==
    {Block(st, tm) :
        st \in {<<Assign(Local(2), "Ref", Local(1))>>,
                <<Assign(Local(2), "Copy", Local(1))>>, <<>>},
        tm \in {Call(FnItem(f), <<Move(Local(2))>>, d, succ) :
                    f \in {DEREF_TRAIT_METHOD, CLONE_TRAIT_METHOD},
                    d \in {Local(3), Local(5)}, succ \in {<<2>>, <<2, 3>>}}
               \cup {Goto(2), SwitchInt(Constant, <<2, 3>>)}}
DerefSecond ==
    {Block(st, Call(FnItem(g), <<Move(Local(4))>>, Local(5), <<3>>)) :
        st \in {<<Assign(Local(4), "Copy", Local(3))>>,
                <<Assign(Local(4), "Ref", Local(3))>>,
                <<Assign(Local(4), "Copy", Local(5))>>},
        g \in {PATH_TO_PATH_BUF, OS_STR_TO_OS_STRING}}
DerefLast ==
    {Block(<<>>, Return), Block(<<StorageDead(1)>>, Return),
     Block(<<Assign(Local(5), "Move", Local(1))>>, Return),
     Block(<<Assign(Local(5), "Copy", Local(3))>>, Return),
     Block(<<>>, Goto(2))}
DerefGraph(g) ==
    \E b1 \in DerefFirst, b2 \in DerefSecond, b3 \in DerefLast,
       ty \in {RefTo(PATH_BUF), RefTo(OS_STRING), RefTo("String")} :
        g = Mir(<<b1, b2, b3>>, DerefDecls(ty))

\* Spans: the span of the call and its text vary
SnipChars == {".", "x", "e_acute"}
SpanInfos ==
    UNION {{SourceInfo(lo, lo + ByteLen(sn), FALSE, TRUE, sn) :
                sn \in SeqsUpTo(SnipChars, MaxSnip)}
           \cup {SourceInfo(lo, lo + n, FALSE, FALSE, <<>>) : n \in 1..MaxSnip} :
           lo \in 0..MaxLo}
SpanGraph(g) ==
    \E info \in SpanInfos :
        g = Mir(<<Block(<<BorrowX>>, WithInfo(CloneCall(CLONE_TRAIT_METHOD, <<2>>), info)),
                  Block(<<>>, Return)>>,
                Decls(RefTo("String")))

\* The example of the lint's documentation:
\*   { let x = Foo::new(); call(x.clone()); call(x.clone()); }
\*   bb1: _3 = &_1; _2 = clone(move _3)    bb2: _6 = call(move _2)
\*   bb3: _5 = &_r; _4 = clone(move _5)    bb4: _7 = call(move _4)
\*   bb5: the end of the scope             bb6: return
SeqDecls ==
    [l \in 1..7 |-> IF l \in {3, 5} THEN RefTo("String") ELSE Owned("String")]
SeqGraph(g) ==
    \E f \in {CLONE_TRAIT_METHOD, TO_OWNED_METHOD, TO_STRING_METHOD},
       r \in {1, 7},
       st \in {<<>>, <<StorageDead(1)>>, <<Assign(Local(6), "Ref", Local(1))>>},
       tm \in {Goto(6), Drop(Local(1), 6)} :
        g = Mir(<<Block(<<Assign(Local(3), "Ref", Local(1))>>,
                        Call(FnItem(f), <<Move(Local(3))>>, Local(2), <<2>>)),
                  Block(<<>>, Call(FnItem("call"), <<Move(Local(2))>>, Local(6), <<3>>)),
                  Block(<<Assign(Local(5), "Ref", Local(r))>>,
                        Call(FnItem(f), <<Move(Local(5))>>, Local(4), <<4>>)),
                  Block(<<>>, Call(FnItem("call"), <<Move(Local(4))>>, Local(7), <<5>>)),
                  Block(st, tm),
                  Block(<<>>, Return)>>,
                SeqDecls)


(***************************************************************************)
(* The state: the MIR of the function, the next block of the loop, the     *)
(* lints emitted so far and, for every block already checked, the locals   *)
(* of its iteration.                                                       *)
(***************************************************************************)
VARIABLES mir, bb, findings, log
vars == <<mir, bb, findings, log>>

Init ==
    /\ \/ CfgGraph(mir)
       \/ CtxGraph(mir)
       \/ ClsGraph(mir)
       \/ ResGraph(mir)
       \/ DerefGraph(mir)
       \/ SpanGraph(mir)
       \/ SeqGraph(mir)
    /\ bb = 1
    /\ findings = <<>>
    /\ log = <<>>

\* The iteration over block bb ends with the given outcome
Ends(outcome) == bb \in BlockIds(mir) /\ CheckBlock(mir, bb).outcome = outcome

\* `continue`, or the end of the loop body: on to the next block
Continue ==
    /\ log' = Append(log, CheckBlock(mir, bb))
    /\ bb' = bb + 1
    /\ UNCHANGED mir

\* Line 102: the terminator comes from a macro expansion
SkipMacro ==
    /\ Ends("in_macro")
    /\ Continue
    /\ UNCHANGED findings

\* Line 107: the block is its own successor
SkipLoop ==
    /\ Ends("self_loop")
    /\ Continue
    /\ UNCHANGED findings

\* Line 111: is_call_with_ref_arg returns None
SkipNoCall ==
    /\ Ends("no_call")
    /\ Continue
    /\ UNCHANGED findings

\* Line 122: neither from_borrow nor from_deref
SkipOtherFn ==
    /\ Ends("other_fn")
    /\ Continue
    /\ UNCHANGED findings

\* Line 129: no statement of the block assigns the argument
SkipNoCloned ==
    /\ Ends("no_cloned")
    /\ Continue
    /\ UNCHANGED findings

\* Line 134: from_deref, and the block has not exactly one predecessor
SkipPreds ==
    /\ Ends("preds")
    /\ Continue
    /\ UNCHANGED findings

\* Line 149: from_deref, and the predecessor is not the dereference call
SkipNoDeref ==
    /\ Ends("no_deref")
    /\ Continue
    /\ UNCHANGED findings

\* Line 153: from_deref, and the predecessor does not borrow the referent
SkipNoReferent ==
    /\ Ends("no_referent")
    /\ Continue
    /\ UNCHANGED findings

\* Line 172: used_later is true
KeepUsed ==
    /\ Ends("used")
    /\ Continue
    /\ UNCHANGED findings

\* Line 188: used_later is false and the snippet has a '.'
EmitSuggestion ==
    /\ Ends("lint")
    /\ Lint(mir, bb).suggestion # NoSpan
    /\ findings' = Append(findings, Lint(mir, bb))
    /\ Continue

\* Line 201: used_later is false, no snippet or no '.' in it
EmitPlain ==
    /\ Ends("lint")
    /\ Lint(mir, bb).suggestion = NoSpan
    /\ findings' = Append(findings, Lint(mir, bb))
    /\ Continue

Next ==
    \/ SkipMacro
    \/ SkipLoop
    \/ SkipNoCall
    \/ SkipOtherFn
    \/ SkipNoCloned
    \/ SkipPreds
    \/ SkipNoDeref
    \/ SkipNoReferent
    \/ KeepUsed
    \/ EmitSuggestion
    \/ EmitPlain

Spec == Init /\ [][Next]_vars

(***************************************************************************)
(* Vocabulary of the properties, stated on the graph itself.               *)
(***************************************************************************)
SuccSet(g, b) ==
    {g.basic_blocks[b].terminator.targets[i] :
        i \in DOMAIN g.basic_blocks[b].terminator.targets}

RECURSIVE Closure(_, _)
Closure(g, S) ==
    LET T == S \cup UNION {SuccSet(g, b) : b \in S}
    IN  IF T = S THEN S ELSE Closure(g, T)

\* The blocks reachable from b through one successor edge or more
After(g, b) == Closure(g, SuccSet(g, b))

\* b is its own successor, or a block reachable from b leads back to b
OnCycle(g, b) == b \in SuccSet(g, b) \/ \E t \in After(g, b) : b \in SuccSet(g, t)

RangeOf(seq) == {seq[i] : i \in DOMAIN seq}

\* The contexts in which local l occurs in block t of g after the call of
\* block b: all of t, or only the terminator when t is b itself
ContextsAfter(g, b, t, l) ==
    LET data == g.basic_blocks[t]
        inStmts == IF t = b THEN {}
                   ELSE UNION {{u.ctx : u \in {v \in RangeOf(StatementUses(data.statements[i])) :
                                                   v.local = l}} :
                               i \in DOMAIN data.statements}
    IN  inStmts \cup {u.ctx : u \in {v \in RangeOf(TerminatorUses(data.terminator)) :
                                         v.local = l}}
ContextsLater(g, b, l) == UNION {ContextsAfter(g, b, t, l) : t \in After(g, b)}

ReadContexts == {"Copy", "Move", "SharedBorrow", "Projection"}
WriteContexts == {"Store", "Call"}
ReleaseContexts == {"Drop", "StorageLive", "StorageDead"}

Checked == DOMAIN log
Flagged(b) == \E i \in DOMAIN findings : findings[i].bb = b
FindingsFor(b) == {i \in DOMAIN findings : findings[i].bb = b}
Resolved(b) == b \in Checked /\ log[b].referent # NoLocal
Finished == bb > Len(mir.basic_blocks)

\* C1: a call whose original slot is read, outside a drop or a storage
\* marker, in a block reachable after the call is never linted.
LivenessSound ==
    \A b \in Checked :
        (Resolved(b) /\ ContextsLater(mir, b, log[b].referent) \cap ReadContexts # {})
            => ~Flagged(b)

\* Witness of C1: a resolved call outside any cycle kept because a later
\* block reads the original.
LaterReadSeen ==
    \E b \in Checked :
        /\ log[b].outcome = "used"
        /\ ~OnCycle(mir, b)
        /\ ContextsLater(mir, b, log[b].referent) \cap ReadContexts # {}
        /\ ContextsLater(mir, b, log[b].referent) \cap WriteContexts = {}

\* C2: a call whose block lies on a control-flow cycle is never linted,
\* even when the original slot is never used after the call.
LoopConservative ==
    \A b \in Checked : OnCycle(mir, b) => ~Flagged(b)

\* Witness of C2: a resolved call on a cycle through another block, with no
\* occurrence of the original after the call, kept by the back-edge rule.
LoopBodyKept ==
    \E b \in Checked :
        /\ log[b].outcome = "used"
        /\ OnCycle(mir, b)
        /\ ContextsLater(mir, b, log[b].referent) = {}

\* C10: an overwrite of the original slot (the destination of an assignment
\* or of a call) in a block reachable after the call suppresses the lint as
\* a read does.
OverwriteCountsAsUse ==
    \A b \in Checked :
        (Resolved(b) /\ ContextsLater(mir, b, log[b].referent) \cap WriteContexts # {})
            => ~Flagged(b)

\* Witness of C10: a resolved call outside any cycle kept although the only
\* later occurrences of the original are overwrites.
OverwriteOnlySeen ==
    \E b \in Checked :
        /\ log[b].outcome = "used"
        /\ ~OnCycle(mir, b)
        /\ ContextsLater(mir, b, log[b].referent) \cap WriteContexts # {}
        /\ ContextsLater(mir, b, log[b].referent) \cap ReadContexts = {}

\* C4: a resolved call outside any cycle whose original occurs after the
\* call only in drops and storage markers gets exactly one finding, with
\* the message "redundant clone".
RedundantDetected ==
    \A b \in Checked :
        (/\ Resolved(b)
         /\ ~in_macro(mir.basic_blocks[b].terminator.source_info)
         /\ ~OnCycle(mir, b)
         /\ ContextsLater(mir, b, log[b].referent) \subseteq ReleaseContexts)
            => /\ Cardinality(FindingsFor(b)) = 1
               /\ \A i \in FindingsFor(b) : findings[i].msg = "redundant clone"

\* Witness of C4: a linted call whose original is dropped or marked dead
\* after the call.
DropDoesNotSuppress ==
    \E b \in Checked :
        /\ Flagged(b)
        /\ ContextsLater(mir, b, log[b].referent) \cap ReleaseContexts # {}

\* The statements of block b that assign `to` from a whole local, by
\* reference or by copy
MatchingStmts(g, b, to, by_ref) ==
    {i \in DOMAIN g.basic_blocks[b].statements :
        LET st == g.basic_blocks[b].statements[i]
        IN  /\ st.kind = "Assign"
            /\ st.place = Local(to)
            /\ st.rv = (IF by_ref THEN "Ref" ELSE "Copy")
            /\ ~st.src.proj}
Last(S) == CHOOSE i \in S : \A j \in S : j <= i
Scanned(b) ==
    b \in Checked /\ log[b].outcome \notin {"in_macro", "self_loop", "no_call", "other_fn"}

\* C7: the backward scan returns the source of the statement nearest to the
\* call that assigns the argument in the mode's shape, looking only at the
\* call's block; when there is none the call is abandoned without a finding.
NearestAssignment ==
    \A b \in Checked :
        Scanned(b) =>
            LET S == MatchingStmts(mir, b, log[b].m.local, log[b].from_borrow)
            IN  IF S = {}
                THEN log[b].cloned = NoLocal /\ ~Flagged(b)
                ELSE log[b].cloned = mir.basic_blocks[b].statements[Last(S)].src.local

\* Witness of C7: two statements of the block assign the argument in the
\* mode's shape from different locals.
NearestChosen ==
    \E b \in Checked :
        /\ Scanned(b)
        /\ LET S == MatchingStmts(mir, b, log[b].m.local, log[b].from_borrow)
               st == mir.basic_blocks[b].statements
           IN  /\ \E i \in S, j \in S : st[i].src.local # st[j].src.local
               /\ log[b].cloned # NoLocal

\* C5 as stated: y = &x before the call, y read after the call and x never
\* read after the call: the call is linted.
BorrowedThenUnread ==
    \A b \in Checked :
        (/\ Resolved(b)
         /\ ~OnCycle(mir, b)
         /\ \E i \in DOMAIN mir.basic_blocks[b].statements, yy \in DOMAIN mir.local_decls :
                /\ yy # log[b].m.local
                /\ mir.basic_blocks[b].statements[i] =
                       Assign(Local(yy), "Ref", Local(log[b].referent))
                /\ ContextsLater(mir, b, yy) \cap ReadContexts # {}
         /\ ContextsLater(mir, b, log[b].referent) \cap ReadContexts = {})
            => Flagged(b)

\* C5, amended: y = &x before the call, y read after the call and x neither
\* read nor overwritten after the call (it occurs only in drops and storage
\* markers): the call is linted; a read of another slot is never a use.
BorrowsNotTracked ==
    \A b \in Checked :
        (/\ Resolved(b)
         /\ ~OnCycle(mir, b)
         /\ \E i \in DOMAIN mir.basic_blocks[b].statements, yy \in DOMAIN mir.local_decls :
                /\ yy # log[b].m.local
                /\ mir.basic_blocks[b].statements[i] =
                       Assign(Local(yy), "Ref", Local(log[b].referent))
                /\ ContextsLater(mir, b, yy) \cap ReadContexts # {}
         /\ ContextsLater(mir, b, log[b].referent) \subseteq ReleaseContexts)
            => Flagged(b)

\* Witness of C5: a linted call with a borrow of the original taken before
\* it and read after it.
BorrowReadLater ==
    \E b \in Checked :
        /\ Flagged(b)
        /\ \E i \in DOMAIN mir.basic_blocks[b].statements, yy \in DOMAIN mir.local_decls :
               /\ yy # log[b].m.local
               /\ mir.basic_blocks[b].statements[i] =
                      Assign(Local(yy), "Ref", Local(log[b].referent))
               /\ ContextsLater(mir, b, yy) \cap ReadContexts # {}

\* The shape of the classifier's contract: a call with one argument that
\* moves a whole local whose type is one reference over a non-Copy type
References == {"ref", "refmut"}
DepthOne(ty) ==
    /\ Len(ty.ptrs) >= 1
    /\ ty.ptrs[1] \in References
    /\ (Len(ty.ptrs) >= 2 => ty.ptrs[2] \notin References)
Pointee(ty) == Ty(Tail(ty.ptrs), ty.base)
RefArgShape(g, term) ==
    /\ term.kind = "Call"
    /\ Len(term.args) = 1
    /\ term.args[1].op = "Move"
    /\ ~term.args[1].place.proj
    /\ DepthOne(g.local_decls[term.args[1].place.local])
    /\ ~is_copy(Pointee(g.local_decls[term.args[1].place.local]))
Classified(b) == b \in Checked /\ log[b].outcome \notin {"in_macro", "self_loop"}

\* C6 as stated: the classifier matches exactly the calls with one moved
\* local argument of type reference-of-depth-one to a non-Copy type.
ClassifierIff ==
    \A b \in Checked :
        Classified(b) => (log[b].m.some <=> RefArgShape(mir, mir.basic_blocks[b].terminator))

\* C6, amended: the classifier matches exactly the calls of that shape whose
\* callee is a function item (its type carries the DefId that is returned);
\* the match holds the callee, the argument local, the pointed-to type and
\* the destination; a call whose argument points to a Copy type is never
\* linted.
ClassifierContract ==
    \A b \in Checked :
        LET term == mir.basic_blocks[b].terminator
        IN  /\ Classified(b) =>
                  /\ log[b].m.some <=> (RefArgShape(mir, term) /\ term.func.sty = "FnDef")
                  /\ log[b].m.some =>
                        log[b].m = Some(term.func.def, term.args[1].place.local,
                                        Pointee(mir.local_decls[term.args[1].place.local]),
                                        term.place)
            /\ (/\ term.kind = "Call"
                /\ Len(term.args) = 1
                /\ term.args[1].op # "Constant"
                /\ ~term.args[1].place.proj
                /\ mir.local_decls[term.args[1].place.local].ptrs # <<>>
                /\ is_copy(Pointee(mir.local_decls[term.args[1].place.local])))
                   => ~Flagged(b)

\* Witness of C6: a call matched by the classifier, with a String behind
\* the reference, that goes on to be linted.
ClassifiedAndLinted ==
    \E b \in Checked :
        /\ log[b].m.some
        /\ Flagged(b)
        /\ log[b].m.ty = Owned("String")

PredSet(g, b) == {p \in BlockIds(g) : b \in SuccSet(g, p)}
FromDeref(b) ==
    /\ b \in Checked
    /\ log[b].m.some
    /\ log[b].m.def \in {PATH_TO_PATH_BUF, OS_STR_TO_OS_STRING}

\* C8: a call of the from-dereference family is linted only if its block
\* has exactly one predecessor, the predecessor ends in a classified call
\* of Deref::deref on a PathBuf or OsString whose destination is the slot
\* found by the by-copy scan, and the by-reference scan of the predecessor
\* finds the referent; the forward scan is about that referent.
TwoHopResolution ==
    \A b \in Checked :
        (FromDeref(b) /\ Flagged(b)) =>
            /\ Cardinality(PredSet(mir, b)) = 1
            /\ LET p == CHOOSE q \in PredSet(mir, b) : TRUE
                   pt == mir.basic_blocks[p].terminator
                   S == MatchingStmts(mir, p, pt.args[1].place.local, TRUE)
               IN  /\ RefArgShape(mir, pt)
                   /\ pt.func.sty = "FnDef"
                   /\ pt.func.def = DEREF_TRAIT_METHOD
                   /\ pt.place = Local(log[b].cloned)
                   /\ Pointee(mir.local_decls[pt.args[1].place.local])
                          \in {Owned(PATH_BUF), Owned(OS_STRING)}
                   /\ S # {}
                   /\ log[b].referent = mir.basic_blocks[p].statements[Last(S)].src.local
                   /\ log[b].referent # log[b].cloned
                   /\ ContextsLater(mir, b, log[b].referent) \subseteq ReleaseContexts

\* Witness of C8: a linted to_path_buf / to_os_string call whose
\* intermediate slot is read after the call.
TwoHopLinted ==
    \E b \in Checked :
        /\ FromDeref(b)
        /\ Flagged(b)
        /\ ContextsLater(mir, b, log[b].cloned) \cap ReadContexts # {}

\* C9: with a snippet that has a '.', at byte offset d for the last one,
\* the finding and its suggestion span [lo + d, hi) and the note [lo, lo + d);
\* otherwise the finding spans [lo, hi) without suggestion or note; a
\* call gets one finding.
SpansExact ==
    \A i \in DOMAIN findings :
        LET f == findings[i]
            info == mir.basic_blocks[f.bb].terminator.source_info
            dots == {k \in DOMAIN info.snip : info.snip[k] = "."}
            d == ByteLen(SubSeq(info.snip, 1, Last(dots) - 1))
        IN  /\ \A j \in DOMAIN findings : findings[j].bb = f.bb => j = i
            /\ IF info.has_snip /\ dots # {}
               THEN /\ f.span = <<info.lo + d, info.hi>>
                    /\ f.suggestion = <<info.lo + d, info.hi>>
                    /\ f.note = <<info.lo, info.lo + d>>
                    /\ info.lo + d < info.hi
               ELSE /\ f.span = <<info.lo, info.hi>>
                    /\ f.suggestion = NoSpan
                    /\ f.note = NoSpan

\* Witness of C9: a finding narrowed past a non-empty receiver.
NarrowedFinding ==
    \E i \in DOMAIN findings :
        /\ findings[i].suggestion # NoSpan
        /\ findings[i].note[1] < findings[i].note[2]

\* Two clone-like calls of the same original in straight-line code, the
\* second after the first, with no use of the original after the second
StraightLine(g) ==
    \A b \in BlockIds(g) : Cardinality(SuccSet(g, b)) <= 1 /\ ~OnCycle(g, b)
SequentialClones(b1, b2) ==
    /\ Finished
    /\ StraightLine(mir)
    /\ Resolved(b1) /\ Resolved(b2)
    /\ b2 \in After(mir, b1)
    /\ log[b1].referent = log[b2].referent
    /\ ContextsLater(mir, b2, log[b2].referent) \subseteq ReleaseContexts

\* C3 as stated: both calls are linted, two findings in all.
BothClonesLinted ==
    \A b1 \in Checked, b2 \in Checked :
        SequentialClones(b1, b2) => Flagged(b1) /\ Flagged(b2) /\ Len(findings) = 2

\* C3, amended: only the second call is linted, one finding in all; the
\* borrow of x for the second call is a use of x after the first.
OnlyLastCloneLinted ==
    \A b1 \in Checked, b2 \in Checked :
        SequentialClones(b1, b2) => ~Flagged(b1) /\ Flagged(b2) /\ Len(findings) = 1

\* Witness of C3: the function of two sequential clones has been checked.
SequentialClonesChecked ==
    \E b1 \in Checked, b2 \in Checked :
        SequentialClones(b1, b2) /\ log[b1].outcome = "used"

====
